---------------------------- MODULE Spec2Model ----------------------------
(***************************************************************************)
(* State-machine model of the startup-trends analysis application:        *)
(*   app.py     session state, ask_question, main                          *)
(*   agents.py  run_analysis (five-task sequential crew), setup_rag_system *)
(*   ui.py      display_qa_interface (the transcript reader)               *)
(* One Streamlit session is modelled: its session_state dictionaries, the  *)
(* position of the script thread, the frame of the pipeline run and of the *)
(* Q&A call in flight, and what the page last rendered.                    *)
(***************************************************************************)
EXTENDS Integers, Sequences, FiniteSets, TLC

(* ------------------------------ bounds -------------------------------- *)
\* user requests (analyses started and questions asked) in one behaviour
MaxRequests == 3

(* --------------------------- value universes --------------------------- *)
None == "<None>"

\* topic strings; "AI" and "ai" differ only in case
Topics == {"AI", "ai"}

\* dictionaries of session_state are functions with a growing domain
EmptyDict == [k \in {} |-> None]

\* str.lower() on the topic strings of the model
LowerTopic(k) == IF k = "AI" THEN "ai" ELSE k

\* variant: the key is normalised before the store
PutNormalized(d, k, v) ==
    [x \in (DOMAIN d) \cup {LowerTopic(k)} |-> IF x = LowerTopic(k) THEN v ELSE d[x]]

\* d[k] = v
Put(d, k, v) == [x \in (DOMAIN d) \cup {k} |-> IF x = k THEN v ELSE d[x]]

Last(s) == s[Len(s)]

(* ----------------------------- Q&A strings ----------------------------- *)
\* A text is a sequence of word tokens; the empty string is <<>>.
Fallback == <<"I couldn't find specific information about that in the analysis.">>

\* str.lower() on the tokens the model uses
Lower(w) ==
    CASE w = "Risks" -> "risks"
      [] w = "Financial" -> "financial"
      [] OTHER -> w

\* "financial risk" in question.lower() or "risks" in question.lower()
IsRiskQuestion(question) ==
    \/ \E i \in 1..Len(question) : Lower(question[i]) = "risks"
    \/ \E i \in 1..(Len(question) - 1) :
          /\ Lower(question[i]) = "financial"
          /\ Lower(question[i + 1]) \in {"risk", "risks"}

risks_terms == <<"risk", "challenge", "uncertainty", "threat", "concern">>

Span(term) == "<span style='color: #e53935; font-weight: bold;'>" \o term \o "</span>"

\* answer.replace(term, <span>term</span>) for one term, token by token
ReplaceTerm(answer, term) ==
    [i \in 1..Len(answer) |-> IF answer[i] = term THEN Span(term) ELSE answer[i]]

RECURSIVE ReplaceAll(_, _)
ReplaceAll(answer, k) ==
    IF k > Len(risks_terms) THEN answer
    ELSE ReplaceAll(ReplaceTerm(answer, risks_terms[k]), k + 1)

\* result.get("answer", <fallback>)
GetAnswer(result) == IF result.has_answer THEN result.answer ELSE Fallback

\* the value of `answer` when it is appended to the transcript
FormatAnswer(question, result) ==
    IF IsRiskQuestion(question) THEN ReplaceAll(GetAnswer(result), 1)
    ELSE GetAnswer(result)

\* questions the user can put.
\* the first mentions "Risks"; the second only "risk", which is no trigger
Questions == { <<"main", "Risks">>, <<"the", "risk">> }

\* results the retrieval chain can return
QAResults ==
    { [has_answer |-> TRUE,  answer |-> <<"low", "risk">>],
      [has_answer |-> TRUE,  answer |-> <<>>],
      [has_answer |-> FALSE, answer |-> <<>>] }

UserEntry(question) == [role |-> "user", content |-> question]
AssistantEntry(answer) == [role |-> "assistant", content |-> answer]


(* --------------------------- pipeline values --------------------------- *)
\* variant: financial_insights listed before business_strategy
TaskOrderSwapped ==
    << "market_research", "competitor_analysis", "financial_insights",
       "business_strategy", "final_report" >>

\* tasks=[...] of the crew, in list order; Process.sequential runs them so
TaskOrder ==
    << "market_research", "competitor_analysis", "business_strategy",
       "financial_insights", "final_report" >>

Tasks == { TaskOrder[i] : i \in 1..Len(TaskOrder) }

\* context=[...] of each Task
DependsOn(task) ==
    CASE task = "market_research"     -> <<>>
      [] task = "competitor_analysis" -> << "market_research" >>
      [] task = "business_strategy"   -> << "market_research", "competitor_analysis" >>
      [] task = "financial_insights"  -> << "market_research", "business_strategy" >>
      [] task = "final_report"        -> << "market_research", "competitor_analysis",
                                            "business_strategy", "financial_insights" >>

Range(s) == { s[i] : i \in 1..Len(s) }

\* agent=... of each Task
AgentOf(task) ==
    CASE task = "market_research"     -> "market_researcher"
      [] task = "competitor_analysis" -> "competitor_analyst"
      [] task = "business_strategy"   -> "business_strategist"
      [] task = "financial_insights"  -> "financial_analyst"
      [] task = "final_report"        -> "business_strategist"

\* tools=[...] of each Agent (the financial analyst is given none)
AgentTools(agent) ==
    CASE agent = "market_researcher"   -> { "DuckDuckGoSearch", "FetchArticle" }
      [] agent = "competitor_analyst"  -> { "DuckDuckGoSearch", "FetchArticle" }
      [] agent = "business_strategist" -> { "DuckDuckGoSearch" }
      [] agent = "financial_analyst"   -> {}

\* no Task names tools of its own, so a task runs with the tools of its agent
ToolsOf(task) == AgentTools(AgentOf(task))

\* the text a task produces
TaskOutput(task) == << "output of", task >>

\* what crew.kickoff() can return: an object with a raw field, with an output
\* field, with both, or with neither (then only its str() form)
CrewResults ==
    { [has_raw |-> TRUE,  raw |-> "report-1", has_output |-> FALSE, output |-> "",         str |-> "obj"],
      [has_raw |-> TRUE,  raw |-> "report-2", has_output |-> TRUE,  output |-> "report-1", str |-> "obj"],
      [has_raw |-> FALSE, raw |-> "",         has_output |-> TRUE,  output |-> " ",        str |-> "obj"],
      [has_raw |-> FALSE, raw |-> "",         has_output |-> FALSE, output |-> "",         str |-> "report-1"],
      [has_raw |-> TRUE,  raw |-> "",         has_output |-> TRUE,  output |-> "report-2", str |-> "obj"] }

\* str(v) on the field values of the model: a string is itself, None is "None"
Str(v) == IF v = None THEN "None" ELSE v

\* variant: the output field is looked at first
CoerceResultOutputFirst(result) ==
    IF result.has_output THEN Str(result.output)
    ELSE IF result.has_raw THEN Str(result.raw)
    ELSE result.str

\* "Convert result to string": hasattr(result,'raw'), then 'output', then str()
CoerceResult(result) ==
    IF result.has_raw THEN Str(result.raw)
    ELSE IF result.has_output THEN Str(result.output)
    ELSE result.str

\* setup_rag_system, "Ensure content is string": a str is taken as it is,
\* anything else goes through raw, then output, then str()
CoerceContent(content) ==
    IF content.is_str THEN content.str
    ELSE IF content.has_raw THEN Str(content.raw)
    ELSE IF content.has_output THEN Str(content.output)
    ELSE content.str

\* the objects the two conversions are tried on: a str (it has neither field)
\* and objects with or without a raw and an output field, whose values may be
\* None, empty or text
FieldValues == { None, "", "report-1", "report-2" }

ResultObjects ==
    [ is_str : { FALSE }, has_raw : BOOLEAN, raw : FieldValues,
      has_output : BOOLEAN, output : FieldValues, str : { "obj", "report-1" } ]
    \cup
    [ is_str : { TRUE }, has_raw : { FALSE }, raw : { None },
      has_output : { FALSE }, output : { None }, str : { "", " ", "report-1" } ]

\* truth value of what run_analysis returned (`if analysis_result:`)
\* variant: only a failed run (None) is skipped
TruthyNotNone(text) == text # None

Truthy(text) == text # None /\ text # ""

\* variant: the except branch hands back what the run has so far
ExceptResultPartial(frame) == "report-1"

\* what the except branch of run_analysis returns
ExceptResult(frame) == None

\* RecursiveCharacterTextSplitter.split_text on the (short) artifacts of the
\* model: whitespace is stripped and empty pieces are dropped
SplitText(content) == IF content \in {"", " "} THEN <<>> ELSE << content >>

(* ------------------------------ fetch_article ------------------------- *)
\* content[:3000]
ContentLimit == 3000

\* len(content) > 50
MinContent == 50

\* a text of n characters
TextOfLen(n) == [ i \in 1..n |-> "c" ]

\* URL arguments with what urlparse makes of them; the last one makes
\* urlparse raise ValueError (an unclosed IPv6 bracket)
Urls ==
    { [ text |-> "https://example.com/a", scheme |-> "https", netloc |-> "example.com", parses |-> TRUE ],
      [ text |-> "example.com/a",         scheme |-> "",      netloc |-> "",            parses |-> TRUE ],
      [ text |-> "https:///a",            scheme |-> "https", netloc |-> "",            parses |-> TRUE ],
      [ text |-> "//example.com/a",       scheme |-> "",      netloc |-> "example.com", parses |-> TRUE ],
      [ text |-> "",                      scheme |-> "",      netloc |-> "",            parses |-> TRUE ],
      [ text |-> "http://[::1/a",         scheme |-> "",      netloc |-> "",            parses |-> FALSE ] }

\* what the site does when it is asked: download() or parse() raises, or the
\* article parses to a text of some length
Sites ==
    [ reachable : { FALSE }, length : { 0 } ]
    \cup [ reachable : { TRUE },
           length : { 0, 1, 49, 50, 51, 2999, 3000, 3001 } ]

Diagnostic(message, url) ==
    [ kind |-> "diagnostic", message |-> message, about |-> url.text,
      content |-> <<>>, network |-> FALSE, raised |-> FALSE ]

\* variant: content of exactly 50 characters counts as sufficient
SufficientFrom50(content) == Len(content) >= MinContent

\* `content and len(content) > 50`
Sufficient(content) == content # <<>> /\ Len(content) > MinContent

\* variant: the whole content is returned
TruncateNot(content) == content

\* content[:3000]
Truncate(content) == SubSeq(content, 1, IF Len(content) < ContentLimit THEN Len(content) ELSE ContentLimit)

\* variant: the article is requested whatever the URL looks like
UrlRejectedNever(url) == FALSE

\* `not parsed_url.scheme or not parsed_url.netloc`
UrlRejected(url) == url.scheme = "" \/ url.netloc = ""

\* lines 37-44, the body of the try block: the value returned, or raised |-> TRUE
\* when urlparse, download() or parse() raises
FetchBody(url, site) ==
    IF ~url.parses
    THEN [ Diagnostic("", url) EXCEPT !.raised = TRUE ]
    ELSE IF UrlRejected(url)
    THEN Diagnostic("Invalid URL format", url)
    ELSE IF ~site.reachable
    THEN [ Diagnostic("", url) EXCEPT !.raised = TRUE, !.network = TRUE ]
    ELSE LET content == TextOfLen(site.length) IN
         IF Sufficient(content)
         THEN [ kind |-> "content", message |-> "", about |-> url.text,
                content |-> Truncate(content), network |-> TRUE, raised |-> FALSE ]
         ELSE [ Diagnostic("Insufficient content from", url) EXCEPT !.network = TRUE ]

\* lines 34-47: the except branch turns anything raised into a diagnostic
fetch_article(url, site) ==
    LET body == FetchBody(url, site) IN
    IF body.raised
    THEN [ Diagnostic("Error fetching content from", url) EXCEPT !.network = body.network ]
    ELSE body

(* ---------------------------- duckduckgo_search ------------------------ *)
\* hits the search backend may hold for a query
MaxHits == 10

\* variant: every hit of the backend is asked for
max_results_all == MaxHits

\* ddg.text(query, max_results=8)
max_results == 8

\* one hit: with a URL, with an empty href, or without the href key
HitKinds == { "url", "empty_href", "no_href" }

\* the hits of the backend for a query: n hits, all of one kind, or of
\* alternating kinds, the i-th URL being distinct from the others
Hit(kind, i) == [ kind |-> kind, href |-> IF kind = "url" THEN << "https://site", i >> ELSE <<>> ]

HitLists ==
    { [ i \in 1..n |-> Hit(IF i % 2 = 1 THEN k1 ELSE k2, i) ] :
        n \in 0..MaxHits, k1 \in HitKinds, k2 \in HitKinds }

\* the backend: DDGS() or ddg.text raises, or it yields its first max hits
DdgText(backend, max) ==
    SubSeq(backend.hits, 1, IF Len(backend.hits) < max THEN Len(backend.hits) ELSE max)

SearchBackends == [ raises : BOOLEAN, hits : HitLists ]

RECURSIVE Hrefs(_)
\* [result["href"] for result in results if result.get("href")]
Hrefs(results) ==
    IF results = <<>> THEN <<>>
    ELSE LET rest == Hrefs(Tail(results)) IN
         IF Head(results).kind = "url" THEN << Head(results).href >> \o rest ELSE rest

\* variant: an empty list is returned as it is
UrlsOrNothing(urls) == urls

\* `urls if urls else ["No valid search results found."]`
UrlsOrDiagnostic(urls) ==
    IF urls # <<>> THEN urls ELSE << "No valid search results found." >>

\* lines 23-32
duckduckgo_search(query, backend) ==
    IF backend.raises
    THEN << "Error performing search" >>
    ELSE UrlsOrDiagnostic(Hrefs(DdgText(backend, max_results)))

(* ------------------------------- state --------------------------------- *)
VARIABLES
    saved_analyses,   \* st.session_state.saved_analyses : topic -> artifact
    vectorstore,      \* st.session_state.vectorstore    : topic -> index
    qa_chain,         \* st.session_state.qa_chain       : topic -> chain (with its memory)
    chat_history,     \* st.session_state.chat_history   : topic -> transcript
    current_topic,    \* st.session_state.current_topic
    pc,               \* where the script thread stands
    run,              \* frame of run_analysis / of the analyze request
    qa,               \* frame of the latest ask_question call
    ui,               \* what the page shows for the latest request
    n_requests,       \* analyses started and questions asked so far
    pure              \* the latest call of a tool or conversion made on its own

session == << saved_analyses, vectorstore, qa_chain, chat_history, current_topic >>
vars == << saved_analyses, vectorstore, qa_chain, chat_history, current_topic,
           pc, run, qa, ui, n_requests, pure >>

\* everything but `pure`
app_state == << saved_analyses, vectorstore, qa_chain, chat_history, current_topic,
                pc, run, qa, ui, n_requests >>

NoRun ==
    [ topic |-> None, progress |-> <<>>, started |-> <<>>, current |-> None,
      outputs |-> EmptyDict, context |-> EmptyDict, failed |-> FALSE,
      final |-> None, tool |-> None ]

NoCall == [ topic |-> None, question |-> <<>>, before |-> <<>>, status |-> "none" ]

NoPure == [ name |-> "none" ]

BlankPage == [ error |-> "", dashboard |-> None, qa |-> "none", chat |-> <<>> ]

\* positions inside the try block of run_analysis
TryPcs == { "llm", "agents", "tasks", "crew", "kickoff", "coerce" }

\* init_session_state
Init ==
    /\ saved_analyses = EmptyDict
    /\ vectorstore = EmptyDict
    /\ qa_chain = EmptyDict
    /\ chat_history = EmptyDict
    /\ current_topic = None
    /\ pc = "idle"
    /\ run = NoRun
    /\ qa = NoCall
    /\ ui = BlankPage
    /\ n_requests = 0
    /\ pure = NoPure

(* ----------------------------- ask_question ---------------------------- *)
\* lines 30-32: the topic has no chain; st.error and return
AskRejected(question, topic) ==
    /\ pc = "idle"
    /\ n_requests < MaxRequests
    /\ topic \notin DOMAIN qa_chain
    /\ n_requests' = n_requests + 1
    /\ qa' = [ topic |-> topic, question |-> question,
               before |-> IF topic \in DOMAIN chat_history THEN chat_history[topic] ELSE <<>>,
               status |-> "rejected" ]
    /\ ui' = [ BlankPage EXCEPT !.error = "qa_not_initialized" ]
    /\ UNCHANGED << pure, session, pc, run >>

\* lines 34-42: the user entry is appended, then the chain is called
AskBegin(question, topic) ==
    /\ pc = "idle"
    /\ n_requests < MaxRequests
    /\ topic \in DOMAIN qa_chain
    /\ n_requests' = n_requests + 1
    /\ qa' = [ topic |-> topic, question |-> question,
               before |-> chat_history[topic], status |-> "running" ]
    /\ chat_history' = [ chat_history EXCEPT ![topic] = Append(@, UserEntry(question)) ]
    /\ pc' = "qa_wait"
    /\ ui' = BlankPage
    /\ UNCHANGED << pure, saved_analyses, vectorstore, qa_chain, current_topic, run >>

\* lines 42-57: the chain returns (its memory has saved the turn), the answer
\* is formatted and appended, and the script reruns
AskAnswered(result) ==
    /\ pc = "qa_wait"
    /\ qa_chain' = [ qa_chain EXCEPT ![qa.topic].memory =
                        Append(@, << qa.question, result.answer >>) ]
    /\ chat_history' = [ chat_history EXCEPT ![qa.topic] =
                        Append(@, AssistantEntry(FormatAnswer(qa.question, result))) ]
    /\ qa' = [ qa EXCEPT !.status = "answered" ]
    /\ pc' = "idle"
    /\ UNCHANGED << pure, saved_analyses, vectorstore, current_topic, run, ui, n_requests >>

\* lines 59-61: the chain raised; the error is logged and shown
AskRaised ==
    /\ pc = "qa_wait"
    /\ qa' = [ qa EXCEPT !.status = "raised" ]
    /\ ui' = [ ui EXCEPT !.error = "answer_error" ]
    /\ pc' = "idle"
    /\ UNCHANGED << pure, session, run, n_requests >>

(* ------------------------- display_qa_interface ------------------------ *)
\* variant: the list is re-created on every display (the guard of 416 lost)
HistoryResetOnDisplay(topic) ==
    IF topic \in DOMAIN qa_chain THEN Put(chat_history, topic, <<>>) ELSE chat_history

\* lines 416-417: the transcript list is created when the topic has none
HistoryAfterDisplay(topic) ==
    IF topic \in DOMAIN qa_chain /\ topic \notin DOMAIN chat_history
    THEN Put(chat_history, topic, <<>>)
    ELSE chat_history

\* lines 408-424: the page after display_qa_interface(topic) ran on `page`
PageAfterQa(page, topic) ==
    IF topic \notin DOMAIN qa_chain
    THEN [ page EXCEPT !.qa = "unavailable" ]
    ELSE [ page EXCEPT !.qa = "shown", !.chat = HistoryAfterDisplay(topic)[topic] ]

(* ----------------------------- run_analysis ---------------------------- *)
Emit(frame, values) == [ frame EXCEPT !.progress = @ \o values ]

\* main 170-172: analyze clicked without an API key
AnalyzeNoKey(topic) ==
    /\ pc = "idle"
    /\ ui' = [ BlankPage EXCEPT !.error = "no_api_key" ]
    /\ UNCHANGED << pure, session, pc, run, qa, n_requests >>

\* main 173-178 and run_analysis 104-112: the run starts and reports 5
AnalyzeStart(topic) ==
    /\ pc = "idle"
    /\ n_requests < MaxRequests
    /\ n_requests' = n_requests + 1
    /\ run' = Emit([ NoRun EXCEPT !.topic = topic ], << 5 >>)
    /\ ui' = BlankPage
    /\ pc' = "llm"
    /\ UNCHANGED << pure, session, qa >>

\* lines 115-135: the model client and the two tools
InitLLM ==
    /\ pc = "llm"
    /\ run' = Emit(run, << 15 >>)
    /\ pc' = "agents"
    /\ UNCHANGED << pure, session, qa, ui, n_requests >>

\* lines 138-173: the four agents
CreateAgents ==
    /\ pc = "agents"
    /\ run' = Emit(run, << 25 >>)
    /\ pc' = "tasks"
    /\ UNCHANGED << pure, session, qa, ui, n_requests >>

\* lines 176-279: the five tasks
CreateTasks ==
    /\ pc = "tasks"
    /\ run' = Emit(run, << 35 >>)
    /\ pc' = "crew"
    /\ UNCHANGED << pure, session, qa, ui, n_requests >>

\* variant: two of the checkpoints in the wrong order
CrewCheckpointsSwapped == << 45, 65, 55, 75, 85 >>

\* lines 289-297: the checkpoints reported before crew.kickoff()
CrewCheckpoints == << 45, 55, 65, 75, 85 >>

\* lines 282-297: the crew, then the five cosmetic checkpoints
CreateCrew ==
    /\ pc = "crew"
    /\ run' = Emit(run, CrewCheckpoints)
    /\ pc' = "kickoff"
    /\ UNCHANGED << pure, session, qa, ui, n_requests >>

\* the task Process.sequential starts next
NextTask(frame) == TaskOrder[Len(frame.started) + 1]

\* the context a task is given: the outputs of the tasks of its context list
ContextOf(task, outputs) ==
    [ d \in Range(DependsOn(task)) \cap DOMAIN outputs |-> outputs[d] ]

\* line 300, crew.kickoff(): the next task of the list starts on its context
TaskBegin ==
    /\ pc = "kickoff"
    /\ run.current = None
    /\ Len(run.started) < Len(TaskOrder)
    /\ LET task == NextTask(run) IN
         run' = [ run EXCEPT !.started = Append(@, task),
                             !.current = task,
                             !.context = Put(@, task, ContextOf(task, run.outputs)) ]
    /\ UNCHANGED << pure, session, pc, qa, ui, n_requests >>

\* the agent of the running task calls one of its tools
ToolCall(tool) ==
    /\ pc = "kickoff"
    /\ run.current # None
    /\ tool \in ToolsOf(run.current)
    /\ run' = [ run EXCEPT !.tool = tool ]
    /\ UNCHANGED << pure, session, pc, qa, ui, n_requests >>

\* the running task delivers its output
TaskEnd ==
    /\ pc = "kickoff"
    /\ run.current # None
    /\ run' = [ run EXCEPT !.outputs = Put(@, run.current, TaskOutput(run.current)),
                           !.current = None, !.tool = None ]
    /\ UNCHANGED << pure, session, pc, qa, ui, n_requests >>

\* lines 300-312: kickoff returns, the result is coerced, 100 is reported
KickoffReturn(result) ==
    /\ pc = "kickoff"
    /\ run.current = None
    /\ Len(run.started) = Len(TaskOrder)
    /\ run' = [ Emit(run, << 100 >>) EXCEPT !.final = CoerceResult(result) ]
    /\ pc' = "main_check"
    /\ UNCHANGED << pure, session, qa, ui, n_requests >>

\* lines 314-317: anything raised inside the try block
RunFail ==
    /\ pc \in TryPcs
    /\ run' = [ run EXCEPT !.failed = TRUE, !.final = ExceptResult(run) ]
    /\ ui' = [ ui EXCEPT !.error = "analysis_error" ]
    /\ pc' = "main_check"
    /\ UNCHANGED << pure, session, qa, n_requests >>

(* --------------------------------- main -------------------------------- *)
\* lines 180-183: a truthy result is stored and made current
MainStore ==
    /\ pc = "main_check"
    /\ Truthy(run.final)
    /\ saved_analyses' = Put(saved_analyses, run.topic, run.final)
    /\ current_topic' = run.topic
    /\ pc' = "rag"
    /\ UNCHANGED << pure, vectorstore, qa_chain, chat_history, run, qa, ui, n_requests >>

\* line 180 false: nothing is stored, nothing is shown
MainSkip ==
    /\ pc = "main_check"
    /\ ~Truthy(run.final)
    /\ pc' = "idle"
    /\ run' = NoRun
    /\ UNCHANGED << pure, session, qa, ui, n_requests >>

(* --------------------------- setup_rag_system -------------------------- *)
\* where setup_rag_system can raise: OpenAIEmbeddings(...), FAISS.from_texts
\* (embedding backend), ConversationalRetrievalChain.from_llm; or nowhere
RagOutcomes == { "ok", "embeddings_error", "index_error", "chain_error" }

\* FAISS.from_texts raises on an empty chunk list as well
RagSucceeds(outcome, chunks) == outcome = "ok" /\ chunks # <<>>

\* lines 74-75: the index built from the chunks; every call of FAISS.from_texts
\* makes a new object, identified here by the number of the request making it
NewIndex(chunks, id) == [ texts |-> chunks, id |-> id ]

\* lines 78-84: a chain over that index with a new, empty memory object
NewChain(index, id) == [ retriever |-> index, memory |-> <<>>, memory_id |-> id ]

\* variant: the except branch resets the whole chain dictionary
QaChainClearedOnFailure(topic) == EmptyDict

\* lines 95-98: the except branch stores nothing and removes nothing
QaChainAfterFailure(topic) == qa_chain

\* variant: the setup leaves the transcripts alone
HistoryUntouchedBySetup(topic) == chat_history

\* lines 90-91: the transcript list is created only when the topic has none
HistoryAfterSetup(topic) ==
    IF topic \in DOMAIN chat_history THEN chat_history
    ELSE Put(chat_history, topic, <<>>)

\* main 186 and setup_rag_system 51-98
SetupRag(outcome) ==
    /\ pc = "rag"
    /\ LET topic  == run.topic
           chunks == SplitText(run.final)
           index  == NewIndex(chunks, n_requests)
       IN IF RagSucceeds(outcome, chunks)
          THEN /\ vectorstore' = Put(vectorstore, topic, index)
               /\ qa_chain' = Put(qa_chain, topic, NewChain(index, n_requests))
               /\ chat_history' = HistoryAfterSetup(topic)
               /\ ui' = ui
          ELSE /\ vectorstore' = vectorstore
               /\ qa_chain' = QaChainAfterFailure(topic)
               /\ chat_history' = chat_history
               /\ ui' = [ ui EXCEPT !.error = "rag_error" ]
    /\ pc' = "display"
    /\ UNCHANGED << pure, saved_analyses, current_topic, run, qa, n_requests >>

\* main 188-193: the dashboard of the new artifact, then the Q&A section
MainDisplay(enable_rag) ==
    /\ pc = "display"
    /\ chat_history' = IF enable_rag THEN HistoryAfterDisplay(run.topic) ELSE chat_history
    /\ ui' = LET page == [ ui EXCEPT !.dashboard = run.topic ]
             IN IF enable_rag THEN PageAfterQa(page, run.topic) ELSE page
    /\ pc' = "idle"
    /\ run' = NoRun
    /\ UNCHANGED << pure, saved_analyses, vectorstore, qa_chain, current_topic, qa, n_requests >>

\* main 121-124: a saved analysis is picked in the sidebar
LoadSaved(topic) ==
    /\ pc = "idle"
    /\ topic \in DOMAIN saved_analyses
    /\ current_topic # topic
    /\ current_topic' = topic
    /\ ui' = BlankPage
    /\ UNCHANGED << pure, saved_analyses, vectorstore, qa_chain, chat_history,
                    pc, run, qa, n_requests >>

\* main 196-206: a script run that only shows the current topic.  Nothing in
\* the code serialises it against a turn whose chain call is outstanding, so
\* it may also run while pc = "qa_wait".
ShowExisting(enable_rag) ==
    /\ pc \in { "idle", "qa_wait" }
    /\ current_topic # None
    /\ current_topic \in DOMAIN saved_analyses
    /\ chat_history' = IF enable_rag THEN HistoryAfterDisplay(current_topic) ELSE chat_history
    /\ ui' = LET page == [ BlankPage EXCEPT !.dashboard = current_topic ]
             IN IF enable_rag THEN PageAfterQa(page, current_topic) ELSE page
    /\ UNCHANGED << pure, saved_analyses, vectorstore, qa_chain, current_topic,
                    pc, run, qa, n_requests >>

(* ---------------------------- specification ---------------------------- *)
Next ==
    \/ \E q \in Questions, t \in Topics : AskRejected(q, t)
    \/ \E q \in Questions, t \in Topics : AskBegin(q, t)
    \/ \E r \in QAResults : AskAnswered(r)
    \/ AskRaised
    \/ \E t \in Topics : AnalyzeNoKey(t)
    \/ \E t \in Topics : AnalyzeStart(t)
    \/ InitLLM
    \/ CreateAgents
    \/ CreateTasks
    \/ CreateCrew
    \/ TaskBegin
    \/ \E tool \in { "DuckDuckGoSearch", "FetchArticle" } : ToolCall(tool)
    \/ TaskEnd
    \/ \E r \in CrewResults : KickoffReturn(r)
    \/ RunFail
    \/ MainStore
    \/ MainSkip
    \/ \E o \in RagOutcomes : SetupRag(o)
    \/ \E e \in BOOLEAN : MainDisplay(e)
    \/ \E t \in Topics : LoadSaved(t)
    \/ \E e \in BOOLEAN : ShowExisting(e)

Spec == Init /\ [][Next]_vars

(* ------------------- tools and conversions on their own --------------- *)
\* run_analysis 302-308 applied to one result object
CallCoerceResult(result) ==
    /\ pure' = [ name |-> "coerce_result", input |-> result,
                 output |-> CoerceResult(result) ]
    /\ UNCHANGED app_state

\* setup_rag_system 54-61 applied to one content object
CallCoerceContent(content) ==
    /\ pure' = [ name |-> "coerce_content", input |-> content,
                 output |-> CoerceContent(content) ]
    /\ UNCHANGED app_state

\* fetch_article applied to one URL, the site behaving one way
CallFetch(url, site) ==
    /\ pure' = [ name |-> "fetch", input |-> [ url |-> url, site |-> site ],
                 output |-> fetch_article(url, site) ]
    /\ UNCHANGED app_state

\* duckduckgo_search applied to one query, the backend behaving one way
CallSearch(query, backend) ==
    /\ pure' = [ name |-> "search", input |-> [ query |-> query, backend |-> backend ],
                 output |-> duckduckgo_search(query, backend) ]
    /\ UNCHANGED app_state

NextPure ==
    \/ \E b \in SearchBackends : CallSearch("startup market size", b)
    \/ \E u \in Urls, w \in Sites : CallFetch(u, w)
    \/ \E r \in ResultObjects : CallCoerceResult(r)
    \/ \E c \in ResultObjects : CallCoerceContent(c)

SpecPure == Init /\ [][NextPure]_vars

(* ------------------------------- claims -------------------------------- *)
IsPrefix(a, b) == Len(a) <= Len(b) /\ SubSeq(b, 1, Len(a)) = a

\* even length, and every user entry immediately followed by an assistant entry
Paired(transcript) ==
    /\ Len(transcript) % 2 = 0
    /\ \A i \in 1..Len(transcript) :
          IF i % 2 = 1
          THEN /\ transcript[i].role = "user"
               /\ i + 1 <= Len(transcript)
               /\ transcript[i + 1].role = "assistant"
          ELSE transcript[i].role = "assistant"

\* C1: whenever no ask_question call is in progress, every topic's transcript
\* has even length and each user entry is followed by its assistant entry.
C1_PairedWhenNoCall ==
    pc # "qa_wait" => \A t \in DOMAIN chat_history : Paired(chat_history[t])

\* C2: after an ask_question call whose chain call raised, the topic's
\* transcript is identical to the transcript before the call.
C2_FailedTurnAddsNothing ==
    qa.status = "raised" => chat_history[qa.topic] = qa.before

\* C3: after an ask_question call whose chain call raised, the turn is
\* complete: the transcript is the one before the call plus the question and
\* the fallback string as the assistant's reply, and the chain is still there.
C3_FallbackRecordedOnFailure ==
    qa.status = "raised" =>
        /\ qa.topic \in DOMAIN qa_chain
        /\ chat_history[qa.topic] =
              qa.before \o << UserEntry(qa.question), AssistantEntry(Fallback) >>

\* C4: a transcript read made while a turn on that topic waits for the chain
\* never shows a half-updated transcript (odd length, or a last user entry
\* without its assistant entry).
C4_ReaderSeesWholeTurns ==
    (pc = "qa_wait" /\ ui.qa = "shown" /\ ui.dashboard = qa.topic) => Paired(ui.chat)

\* C5: each successful turn adds exactly two entries, the user entry with the
\* question and then the assistant entry with the answer, and no step ever
\* edits, reorders or removes an entry a transcript already holds.
C5_TurnsAppendTwo ==
    [][ /\ \A t \in DOMAIN chat_history :
              /\ t \in DOMAIN chat_history'
              /\ IsPrefix(chat_history[t], chat_history'[t])
        /\ (qa.status = "running" /\ qa'.status = "answered") =>
              \E r \in QAResults :
                 chat_history'[qa.topic] =
                    qa.before \o << UserEntry(qa.question),
                                    AssistantEntry(FormatAnswer(qa.question, r)) >>
      ]_vars

\* a second successful turn on a topic has completed
C5_Witness ==
    /\ qa.status = "answered"
    /\ Len(qa.before) = 2
    /\ Len(chat_history[qa.topic]) = 4

\* the dependency lists the claim states
ClaimedDeps(task) ==
    CASE task = "market_research"     -> {}
      [] task = "competitor_analysis" -> { "market_research" }
      [] task = "business_strategy"   -> { "market_research", "competitor_analysis" }
      [] task = "financial_insights"  -> { "market_research", "business_strategy" }
      [] task = "final_report"        -> { "market_research", "competitor_analysis",
                                           "business_strategy", "financial_insights" }

\* C6: the tasks of a run start one at a time in the order market_research,
\* competitor_analysis, business_strategy, financial_insights, final_report;
\* a task starts only when every task of its dependency list has delivered,
\* and its context holds the output of each of them.
C6_TopologicalOrder ==
    /\ IsPrefix(run.started,
                << "market_research", "competitor_analysis", "business_strategy",
                   "financial_insights", "final_report" >>)
    /\ \A i \in 1..Len(run.started) :
          LET task == run.started[i] IN
          /\ Range(DependsOn(task)) = ClaimedDeps(task)
          /\ DOMAIN run.context[task] = ClaimedDeps(task)
          /\ \A d \in ClaimedDeps(task) :
                /\ \E j \in 1..(i - 1) : run.started[j] = d
                /\ d \in DOMAIN run.outputs
                /\ run.context[task][d] = run.outputs[d]
          /\ (i < Len(run.started) => task \in DOMAIN run.outputs)
    /\ run.current # None => run.current = Last(run.started)

\* the last task is running on the outputs of the other four
C6_Witness ==
    /\ pc = "kickoff"
    /\ run.current = "final_report"
    /\ Cardinality(DOMAIN run.outputs) = 4

\* C7: while a run is inside run_analysis, and when a failed run is handed
\* back to main, no step changes the stored artifacts, the current topic, the
\* indexes, the chains or the transcripts, or shows a dashboard; a failed run
\* returns no text at all.
C7_FailedRunChangesNothing ==
    [][ (pc \in TryPcs \/ (pc = "main_check" /\ run.failed)) =>
           /\ session' = session
           /\ ui'.dashboard = None
           /\ (run'.failed => run'.final = None)
      ]_vars

\* a run failed after some tasks had delivered, with a session already stored
C7_Witness ==
    /\ pc = "main_check"
    /\ run.failed
    /\ Len(run.started) >= 2
    /\ DOMAIN saved_analyses # {}
    /\ ui.error = "analysis_error"

\* C8: when a re-run of a topic has stored its artifact and set up its RAG
\* system, the topic's index, chain memory and transcript belong to the new
\* run: the transcript and the memory are empty.
C8_RerunOverwritesSession ==
    (pc = "display" /\ ui.error # "rag_error") =>
        /\ saved_analyses[run.topic] = run.final
        /\ vectorstore[run.topic].texts = SplitText(run.final)
        /\ qa_chain[run.topic].memory = <<>>
        /\ chat_history[run.topic] = <<>>

\* C9: when the RAG setup of a topic failed after its analysis succeeded, the
\* artifact is stored and the topic has no chain attached.
C9_RagFailureDisablesQa ==
    (pc = "display" /\ ui.error = "rag_error") =>
        /\ saved_analyses[run.topic] = run.final
        /\ run.topic \notin DOMAIN qa_chain

SameAt(d, e, k) ==
    /\ (k \in DOMAIN d <=> k \in DOMAIN e)
    /\ (k \in DOMAIN d => d[k] = e[k])

\* C10: a failing RAG setup on topic A leaves the artifact, transcript, index
\* and chain of every other topic, and A's stored artifact, as they were.
C10_RagFailureIsolated ==
    [][ (pc = "rag" /\ ui'.error = "rag_error") =>
           /\ SameAt(saved_analyses, saved_analyses', run.topic)
           /\ \A b \in Topics \ { run.topic } :
                 /\ SameAt(saved_analyses, saved_analyses', b)
                 /\ SameAt(chat_history, chat_history', b)
                 /\ SameAt(vectorstore, vectorstore', b)
                 /\ SameAt(qa_chain, qa_chain', b)
      ]_vars

\* the RAG setup of one topic failed while another topic has a chain and a
\* transcript with a turn in it
C10_Witness ==
    /\ pc = "display"
    /\ ui.error = "rag_error"
    /\ \E b \in Topics \ { run.topic } :
          /\ b \in DOMAIN qa_chain
          /\ b \in DOMAIN vectorstore
          /\ Len(chat_history[b]) >= 2

\* the topic a step acts for: the topic of the run inside an analyze request,
\* the topic of the ask_question call, the current topic for a plain display
ActingTopics ==
    IF pc \notin { "idle", "qa_wait" } THEN { run.topic }
    ELSE IF qa' # qa THEN { qa'.topic }
    ELSE { current_topic }

SameSessionAt(k) ==
    /\ SameAt(saved_analyses, saved_analyses', k)
    /\ SameAt(vectorstore, vectorstore', k)
    /\ SameAt(qa_chain, qa_chain', k)
    /\ SameAt(chat_history, chat_history', k)

\* C11: every step leaves all four session fields of every topic other than
\* the one it acts for unchanged (topics differing only in case included), and
\* no two topics hold the same index object or the same memory object; the
\* chain of a topic retrieves from that topic's own index.
C11_TopicsShareNothing ==
    [][ /\ \A b \in Topics : b \notin ActingTopics => SameSessionAt(b)
        /\ \A a \in DOMAIN qa_chain', b \in DOMAIN qa_chain' :
              /\ qa_chain'[a].retriever = vectorstore'[a]
              /\ a # b => /\ qa_chain'[a].memory_id # qa_chain'[b].memory_id
                          /\ vectorstore'[a].id # vectorstore'[b].id
      ]_vars

\* "AI" and "ai" both have a session, built from the same report text, and a
\* turn was recorded for one of them only
C11_Witness ==
    /\ DOMAIN qa_chain = { "AI", "ai" }
    /\ saved_analyses["AI"] = saved_analyses["ai"]
    /\ Len(chat_history["AI"]) = 2
    /\ chat_history["ai"] = <<>>
    /\ qa_chain["ai"].memory = <<>>

\* the tool access the claim states
ClaimedTools(task) ==
    CASE task = "market_research"     -> { "DuckDuckGoSearch", "FetchArticle" }
      [] task = "competitor_analysis" -> { "DuckDuckGoSearch", "FetchArticle" }
      [] task = "business_strategy"   -> { "DuckDuckGoSearch" }
      [] task = "financial_insights"  -> {}
      [] task = "final_report"        -> {}

\* C12: a tool is called only by a task that is declared to have it: search
\* and fetch in market_research and competitor_analysis, search alone in
\* business_strategy, none in financial_insights and final_report.
C12_ToolAccessAsDeclared ==
    (run.current # None /\ run.tool # None) => run.tool \in ClaimedTools(run.current)

\* the precedence the claim states: raw, then output, then str()
ClaimedCoercion(obj) ==
    IF obj.has_raw THEN (IF obj.raw = None THEN "None" ELSE obj.raw)
    ELSE IF obj.has_output THEN (IF obj.output = None THEN "None" ELSE obj.output)
    ELSE obj.str

\* C13: the conversion of the pipeline result yields a text for every result
\* object, by the precedence raw field, output field, str(); the RAG setup
\* converts a non-string artifact by the same precedence.
C13_CoercionPrecedence ==
    /\ pure.name = "coerce_result" =>
          /\ pure.output = ClaimedCoercion(pure.input)
          /\ pure.output \in { "None", "", " ", "report-1", "report-2", "obj" }
    /\ (pure.name = "coerce_content" /\ ~pure.input.is_str) =>
          pure.output = ClaimedCoercion(pure.input)

\* a result with both fields, whose raw field holds None, was converted
C13_Witness ==
    /\ pure.name = "coerce_result"
    /\ pure.input.has_raw /\ pure.input.has_output
    /\ pure.input.raw = None /\ pure.input.output = "report-2"
    /\ pure.output = "None"

\* C14: the assistant entry of a turn whose chain call returned is never
\* empty: when the result has an empty or a missing answer field, the entry
\* holds the fallback string.
C14_FallbackForEmptyAnswer ==
    \A t \in DOMAIN chat_history : \A i \in 1..Len(chat_history[t]) :
        chat_history[t][i].role = "assistant" => chat_history[t][i].content # <<>>

DesignProgress == << 5, 15, 25, 35, 45, 55, 65, 75, 85, 100 >>

\* the frame's progress is a prefix of the design values, and holds 100
\* exactly when run_analysis has returned a text
ProgressOk(frame, at) ==
    /\ IsPrefix(frame.progress, DesignProgress)
    /\ (100 \in Range(frame.progress)) <=>
          (at \in { "main_check", "rag", "display" } /\ ~frame.failed)

\* C15: the progress values of a run are a prefix of 5, 15, ..., 85, 100 (so
\* strictly increasing), 100 is among them exactly when the run returned its
\* text, and nothing is reported once the run has failed.
C15_ProgressMonotone ==
    [][ /\ ProgressOk(run', pc')
        /\ run.failed => (run' = NoRun \/ run'.progress = run.progress)
      ]_vars

\* a run failed during kickoff: its progress stops at 85
C15_Witness ==
    /\ pc = "main_check"
    /\ run.failed
    /\ run.progress = << 5, 15, 25, 35, 45, 55, 65, 75, 85 >>
    /\ run.current = "business_strategy"

\* C16: fetch returns a string for every URL and never raises; for a URL
\* without scheme or without host it returns a diagnostic and has made no
\* network access; content it returns is at most 3000 characters long.
C16_FetchTotal ==
    pure.name = "fetch" =>
        /\ ~pure.output.raised
        /\ pure.output.kind \in { "content", "diagnostic" }
        /\ (pure.input.url.scheme = "" \/ pure.input.url.netloc = "") =>
              (pure.output.kind = "diagnostic" /\ ~pure.output.network)
        /\ pure.output.kind = "content" => Len(pure.output.content) <= 3000

\* a reachable article of 3001 characters was fetched from a URL with scheme
\* and host, and came back cut to 3000
C16_Witness ==
    /\ pure.name = "fetch"
    /\ pure.input.url.scheme # "" /\ pure.input.url.netloc # ""
    /\ pure.input.site.reachable /\ pure.input.site.length = 3001
    /\ pure.output.kind = "content"
    /\ Len(pure.output.content) = 3000

\* the URL is well formed and the site delivered its article
Fetched == /\ pure.input.url.parses
           /\ pure.input.url.scheme # "" /\ pure.input.url.netloc # ""
           /\ pure.input.site.reachable

\* C17 as stated: fetch returns content exactly when the fetch succeeded and
\* the article has 50 characters or more.
C17_ContentFrom50 ==
    pure.name = "fetch" =>
        (pure.output.kind = "content" <=> (Fetched /\ pure.input.site.length >= 50))

\* C17 as amended: fetch returns content exactly when the fetch succeeded and
\* the article has more than 50 characters, and the content returned is the
\* first 3000 characters of the article; otherwise it returns a diagnostic.
C17_ContentAbove50 ==
    pure.name = "fetch" =>
        /\ pure.output.kind = "content" <=> (Fetched /\ pure.input.site.length > 50)
        /\ pure.output.kind = "content" =>
              /\ IsPrefix(pure.output.content, TextOfLen(pure.input.site.length))
              /\ Len(pure.output.content) =
                    (IF pure.input.site.length < 3000 THEN pure.input.site.length ELSE 3000)
        /\ pure.output.kind # "content" => pure.output.kind = "diagnostic"

\* an article of exactly 51 characters came back as content, whole
C17_Witness ==
    /\ pure.name = "fetch"
    /\ Fetched
    /\ pure.input.site.length = 51
    /\ pure.output.kind = "content"
    /\ Len(pure.output.content) = 51

SearchDiagnostics ==
    { << "No valid search results found." >>, << "Error performing search" >> }

\* C18: search returns, for every backend behaviour, a sequence of one to
\* eight elements and never raises; when the backend fails or yields no hit
\* with a URL, the sequence is a single diagnostic string.
C18_SearchTotal ==
    pure.name = "search" =>
        /\ Len(pure.output) >= 1
        /\ Len(pure.output) <= 8
        /\ \/ pure.input.backend.raises
           \/ \A i \in 1..Len(pure.input.backend.hits) :
                 i <= 8 => pure.input.backend.hits[i].kind # "url"
           => pure.output \in SearchDiagnostics
        /\ pure.output \notin SearchDiagnostics =>
              \A i \in 1..Len(pure.output) :
                 \E j \in 1..Len(pure.input.backend.hits) :
                    pure.input.backend.hits[j].href = pure.output[i]

\* the backend holds more than eight hits, each with a URL, and search
\* returned eight of them
C18_Witness ==
    /\ pure.name = "search"
    /\ ~pure.input.backend.raises
    /\ Len(pure.input.backend.hits) > 8
    /\ \A i \in 1..Len(pure.input.backend.hits) : pure.input.backend.hits[i].kind = "url"
    /\ Len(pure.output) = 8

\* C19: when the artifact handed to the RAG setup is empty or whitespace-only,
\* the setup fails and leaves the topic without index and without chain, the
\* stored artifact staying available.
C19_EmptyArtifactDetachesQa ==
    (pc = "display" /\ SplitText(run.final) = <<>>) =>
        /\ ui.error = "rag_error"
        /\ saved_analyses[run.topic] = run.final
        /\ run.topic \notin DOMAIN vectorstore
        /\ run.topic \notin DOMAIN qa_chain

\* C20: between requests, the retriever attached to a topic was built from the
\* artifact stored for that topic.
C20_RetrieverOfStoredArtifact ==
    pc = "idle" =>
        \A t \in DOMAIN qa_chain :
            /\ t \in DOMAIN saved_analyses
            /\ t \in DOMAIN vectorstore
            /\ qa_chain[t].retriever = vectorstore[t]
            /\ qa_chain[t].retriever.texts = SplitText(saved_analyses[t])

\* the user entries of a transcript that are followed at once by an
\* assistant entry
PairCount(transcript) ==
    Cardinality({ i \in 1..Len(transcript) :
                    /\ transcript[i].role = "user"
                    /\ i + 1 <= Len(transcript)
                    /\ transcript[i + 1].role = "assistant" })

\* C21: whenever no ask_question call is in progress, the memory of a topic's
\* chain holds as many (question, answer) pairs as the topic's transcript
\* holds user/assistant pairs.
C21_MemoryMatchesTranscript ==
    pc # "qa_wait" =>
        \A t \in DOMAIN qa_chain :
            /\ t \in DOMAIN chat_history
            /\ Len(qa_chain[t].memory) = PairCount(chat_history[t])

\* C22: the topics with a chain are the topics with an index, and each of
\* them has a stored artifact and a transcript list, so that the transcript
\* read by an accepted ask_question exists.
C22_RegistryKeysConsistent ==
    /\ DOMAIN qa_chain = DOMAIN vectorstore
    /\ DOMAIN qa_chain \subseteq DOMAIN saved_analyses
    /\ DOMAIN qa_chain \subseteq DOMAIN chat_history
    /\ qa.status = "running" => qa.topic \in DOMAIN chat_history

\* a question was accepted on one topic while another topic has an artifact
\* but no chain
C22_Witness ==
    /\ pc = "qa_wait"
    /\ qa.status = "running"
    /\ qa.topic \in DOMAIN qa_chain
    /\ \E t \in DOMAIN saved_analyses : t \notin DOMAIN qa_chain

\* C23: every stored artifact is a non-empty string and the current topic is
\* unset or has a stored artifact; a run that returned the empty text stores
\* nothing, sets up no index or chain and leaves the current topic alone.
C23_SessionFromNonEmptyArtifact ==
    [][ /\ \A t \in DOMAIN saved_analyses' :
              saved_analyses'[t] # "" /\ saved_analyses'[t] # None
        /\ current_topic' = None \/ current_topic' \in DOMAIN saved_analyses'
        /\ (pc = "main_check" /\ run.final = "") =>
              (pc' = "idle" /\ UNCHANGED session) ]_vars

\* run_analysis returned the empty text for a topic other than the current one
C23_Witness ==
    /\ pc = "main_check"
    /\ run.final = ""
    /\ ~run.failed
    /\ current_topic # None
    /\ current_topic # run.topic

=============================================================================
